---- MODULE Spec2Model ----
(***************************************************************************)
(* Draft schedule store of the bldr schedule builder                       *)
(* (contexts/ScheduleBuilderContext.tsx), the active-schedule context it   *)
(* observes (contexts/ActiveScheduleContext.tsx) and the time/day parsing  *)
(* utilities (lib/timeUtils) used by its conflict check.                   *)
(*                                                                         *)
(* Strings that the code parses (times, day codes) are sequences of        *)
(* one-character strings.  Decimal hours are kept as minutes, i.e. the     *)
(* value timeToDecimal returns multiplied by 60; NaN is the value NaN.     *)
(***************************************************************************)
EXTENDS Integers, Sequences, FiniteSets, Bags, TLC

\* ------------------------------------------------------------------------
\* Bounds of the model
\* ------------------------------------------------------------------------
MaxDraft == 2
MaxSchedules == 2

\* ------------------------------------------------------------------------
\* JavaScript string helpers
\* ------------------------------------------------------------------------
Digits == <<"0", "1", "2", "3", "4", "5", "6", "7", "8", "9">>

NaN == -1

\* the value of a call that does not return: a TypeError is thrown
Thrown == -2

IsDigit(ch) == \E i \in 1..10 : Digits[i] = ch

DigitVal(ch) == (CHOOSE i \in 1..10 : Digits[i] = ch) - 1

RECURSIVE TrimLeft(_)
TrimLeft(s) == IF s # <<>> /\ Head(s) = " " THEN TrimLeft(Tail(s)) ELSE s

RECURSIVE TrimRight(_)
TrimRight(s) ==
  IF s # <<>> /\ s[Len(s)] = " " THEN TrimRight(SubSeq(s, 1, Len(s) - 1)) ELSE s

Trim(s) == TrimRight(TrimLeft(s))

RECURSIVE DigitsValue(_, _)
DigitsValue(s, acc) ==
  IF s = <<>> THEN acc ELSE DigitsValue(Tail(s), acc * 10 + DigitVal(Head(s)))

\* Number(str) for the strings that occur: surrounding blanks are ignored,
\* the empty string is 0, a run of decimal digits is its value, anything
\* else is NaN.
Number(s) ==
  LET t == Trim(s) IN
    IF t = <<>> THEN 0
    ELSE IF \A i \in 1..Len(t) : IsDigit(t[i]) THEN DigitsValue(t, 0)
    ELSE NaN

\* str.split(sep) for a one-character separator
RECURSIVE SplitAcc(_, _, _, _)
SplitAcc(s, sep, cur, acc) ==
  IF s = <<>> THEN Append(acc, cur)
  ELSE IF Head(s) = sep THEN SplitAcc(Tail(s), sep, <<>>, Append(acc, cur))
  ELSE SplitAcc(Tail(s), sep, Append(cur, Head(s)), acc)

Split(s, sep) == SplitAcc(s, sep, <<>>, <<>>)

ToUpperChar(ch) ==
  IF ch = "a" THEN "A" ELSE IF ch = "p" THEN "P" ELSE IF ch = "m" THEN "M" ELSE ch

ToUpperCase(s) == [i \in 1..Len(s) |-> ToUpperChar(s[i])]

\* /AM|PM/i.test(str)
HasMeridian(s) ==
  \E i \in 1..(Len(s) - 1) :
    /\ ToUpperChar(s[i]) \in {"A", "P"}
    /\ ToUpperChar(s[i + 1]) = "M"

\* ------------------------------------------------------------------------
\* lib/timeUtils
\* ------------------------------------------------------------------------
\* hours + (minutes || 0) / 60, in minutes; NaN when hours is NaN
HoursPlusMinutes(hours, minutes) ==
  IF hours = NaN THEN NaN
  ELSE hours * 60 + (IF minutes = NaN THEN 0 ELSE minutes)

\* the second element of split(':').map(Number), undefined counted as NaN
\* (both fall to 0 under `minutes || 0`)
MinutesPart(parts) == IF Len(parts) >= 2 THEN Number(parts[2]) ELSE NaN

\* mutant: 12 is added to every PM hour, 12 included
timeToDecimalNoNoon(timeStr) ==
  LET words == Split(Trim(timeStr), " ")
      parts == Split(words[1], ":")
      hours == Number(parts[1])
  IN IF timeStr = <<>> THEN 0
     ELSE IF ~HasMeridian(timeStr) THEN HoursPlusMinutes(hours, MinutesPart(parts))
     ELSE IF Len(words) < 2 THEN Thrown
     ELSE IF ToUpperCase(words[2]) = <<"P", "M">> /\ hours # NaN
       THEN HoursPlusMinutes(hours + 12, MinutesPart(parts))
     ELSE IF ToUpperCase(words[2]) = <<"A", "M">> /\ hours = 12
       THEN HoursPlusMinutes(0, MinutesPart(parts))
     ELSE HoursPlusMinutes(hours, MinutesPart(parts))

\* Thrown when the call throws, else the hours as minutes, or NaN
timeToDecimal(timeStr) ==
  IF timeStr = <<>> THEN 0
  ELSE IF ~HasMeridian(timeStr)
    THEN LET parts == Split(timeStr, ":") IN
           HoursPlusMinutes(Number(parts[1]), MinutesPart(parts))
    ELSE LET words == Split(Trim(timeStr), " ")
             parts == Split(words[1], ":")
             meridian == ToUpperCase(words[2])
             hours == Number(parts[1])
             h1 == IF meridian = <<"P", "M">> /\ hours # 12 /\ hours # NaN
                     THEN hours + 12 ELSE hours
             h2 == IF meridian = <<"A", "M">> /\ h1 = 12 THEN 0 ELSE h1
         IN \* no blank before the meridian: meridian is undefined and
            \* meridian.toUpperCase() throws
            IF Len(words) < 2 THEN Thrown
            ELSE HoursPlusMinutes(h2, MinutesPart(parts))

\* a < b on numbers, false when either side is NaN
NumLt(a, b) == a # NaN /\ b # NaN /\ a < b

mapDayAbbreviation(abbr) ==
  IF abbr = <<"M">> THEN "Monday"
  ELSE IF abbr = <<"T", "u">> THEN "Tuesday"
  ELSE IF abbr = <<"W">> THEN "Wednesday"
  ELSE IF abbr = <<"T", "h">> THEN "Thursday"
  ELSE IF abbr = <<"F">> THEN "Friday"
  ELSE IF abbr = <<"S", "a">> THEN "Saturday"
  ELSE IF abbr = <<"U">> THEN "Sunday"
  ELSE abbr[1]

RECURSIVE parseDaysFrom(_, _)
parseDaysFrom(daysStr, days) ==
  IF daysStr = <<>> THEN days
  ELSE IF /\ Len(daysStr) >= 2
          /\ SubSeq(daysStr, 1, 2) \in {<<"T", "u">>, <<"T", "h">>, <<"S", "a">>}
    THEN parseDaysFrom(SubSeq(daysStr, 3, Len(daysStr)),
                       Append(days, mapDayAbbreviation(SubSeq(daysStr, 1, 2))))
    ELSE parseDaysFrom(Tail(daysStr),
                       Append(days, mapDayAbbreviation(<<Head(daysStr)>>)))

parseDays(daysStr) == parseDaysFrom(daysStr, <<>>)

\* ------------------------------------------------------------------------
\* The course catalogue offered to the draft (what /api/getClassInfo returns)
\* ------------------------------------------------------------------------
DayOrder == <<"Monday", "Tuesday", "Wednesday", "Thursday", "Friday", "Saturday", "Sunday">>

DayCode(d) ==
  IF d = "Monday" THEN <<"M">>
  ELSE IF d = "Tuesday" THEN <<"T", "u">>
  ELSE IF d = "Wednesday" THEN <<"W">>
  ELSE IF d = "Thursday" THEN <<"T", "h">>
  ELSE IF d = "Friday" THEN <<"F">>
  ELSE IF d = "Saturday" THEN <<"S", "a">>
  ELSE <<"U">>

\* the day code of a set of week days, e.g. {Monday, Wednesday, Friday} is MWF
RECURSIVE DaysStringFrom(_, _)
DaysStringFrom(days, i) ==
  IF i > 7 THEN <<>>
  ELSE (IF DayOrder[i] \in days THEN DayCode(DayOrder[i]) ELSE <<>>)
         \o DaysStringFrom(days, i + 1)

DaysString(days) == DaysStringFrom(days, 1)

NumStr(n) ==
  IF n < 10 THEN <<Digits[n + 1]>> ELSE <<Digits[(n \div 10) + 1], Digits[(n % 10) + 1]>>

TwoDigits(n) == <<Digits[(n \div 10) + 1], Digits[(n % 10) + 1]>>

\* a wall-clock time, given in minutes after midnight, as "HH:MM"
Clock24(t) == TwoDigits(t \div 60) \o <<":">> \o TwoDigits(t % 60)

\* a wall-clock time, given in minutes after midnight, as "H:MM AM" / "H:MM PM"
Clock12(t) ==
  LET h == t \div 60
      h12 == IF h % 12 = 0 THEN 12 ELSE h % 12
  IN NumStr(h12) \o <<":">> \o TwoDigits(t % 60)
       \o <<" ">> \o (IF h < 12 THEN <<"A", "M">> ELSE <<"P", "M">>)

ClockString(t, fmt) == IF fmt = 12 THEN Clock12(t) ELSE Clock24(t)

\* One offering: the week days it meets and its start and end in minutes
\* after midnight, with the clock format its record uses.
Offering(dept, code, component, days, start, end, fmt) ==
  [dept |-> dept, code |-> code, component |-> component,
   days |-> days, start |-> start, end |-> end, fmt |-> fmt]

Catalog ==
  [u1 |-> Offering("CS", "101", "LEC", {"Monday"}, 540, 590, 12),
   u2 |-> Offering("CS", "101", "LEC", {"Monday", "Thursday"}, 570, 620, 12),
   u3 |-> Offering("CS", "101", "LEC", {"Monday"}, 540, 590, 24),
   u4 |-> Offering("CS", "101", "LAB", {"Tuesday", "Thursday"}, 540, 590, 24),
   u5 |-> Offering("MATH", "125", "LEC", {"Monday"}, 590, 640, 12),
   u6 |-> Offering("MATH", "125", "LEC", {"Monday", "Wednesday"}, 540, 600, 24),
   u7 |-> Offering("EECS", "168", "LEC", {"Monday"}, 599, 630, 12),
   u8 |-> Offering("EECS", "168", "LAB", {"Wednesday", "Friday"}, 690, 740, 12),
   u9 |-> Offering("MATH", "125", "LAB", {"Friday"}, 740, 790, 12),
   u10 |-> Offering("EECS", "168", "DIS", {}, 540, 590, 12),
   u11 |-> Offering("MATH", "125", "DIS", {"Friday", "Sunday"}, 720, 750, 24),
   u12 |-> Offering("CS", "101", "LAB", {"Monday", "Wednesday"}, 540, 590, 12)]

Uuids == DOMAIN Catalog

\* the sections the user clicks in the model of the whole store
Offered == {"u1", "u2", "u4"}

\* the ClassSection object of an offering, as /api/getClassInfo returns it
SectionRecord(u) ==
  [uuid |-> u,
   dept |-> Catalog[u].dept,
   code |-> Catalog[u].code,
   component |-> Catalog[u].component,
   days |-> DaysString(Catalog[u].days),
   starttime |-> ClockString(Catalog[u].start, Catalog[u].fmt),
   endtime |-> ClockString(Catalog[u].end, Catalog[u].fmt)]

\* the records of the catalogue, built once
SectionTable == [u \in Uuids |-> SectionRecord(u)]

\* the ClassSection object the UI hands to addClassToDraft
ClassSection(u) == SectionTable[u]

Sections == {ClassSection(u) : u \in Uuids}

\* Time strings as a record of the classes table may hold them: every string
\* of at most MaxTimeLen characters, the empty one included
MaxTimeLen == 3

TimeChars == {"9", ":", "A", "M", " ", "x"}

TimeStrings == UNION {[1..k -> TimeChars] : k \in 0..MaxTimeLen}

\* the section u4 as /api/getClassInfo returns it when the column `field`
\* of its row holds the string t
TimedSection(field, t) == [ClassSection("u4") EXCEPT !.uuid = "t4", ![field] = t]

\* a wall-clock time, given in minutes after midnight, as "H:MM"
ClockShort(t) == NumStr(t \div 60) \o <<":">> \o TwoDigits(t % 60)

\* am / pm in lower case
ToLowerCase(s) ==
  [i \in 1..Len(s) |->
     IF s[i] = "A" THEN "a" ELSE IF s[i] = "P" THEN "p" ELSE IF s[i] = "M" THEN "m"
     ELSE s[i]]

\* the minutes of a day, and the well-formed strings of each: "HH:MM",
\* "H:MM", "H:MM AM" / "H:MM PM" and "H:MM am" / "H:MM pm"
Minutes == 0..(24 * 60 - 1)

ClockFormats(t) == {Clock24(t), ClockShort(t), Clock12(t), ToLowerCase(Clock12(t))}

ClockTable == [t \in Minutes |-> ClockFormats(t)]

ClockTimes == UNION {ClockTable[t] : t \in Minutes}

\* timeToDecimal and parseDays of the strings of the catalogue, of
\* TimeStrings and of ClockTimes, evaluated once
DecimalTable ==
  [t \in {c.starttime : c \in Sections} \cup {c.endtime : c \in Sections}
          \cup TimeStrings \cup ClockTimes |->
     timeToDecimal(t)]

\* Day-code strings as a record of the classes table may hold them: up to
\* MaxDays codes of the scheme of lib/timeUtils (M Tu W Th F Sa U) or of the
\* scheme of the addClass route (M T W R F S U)
MaxDays == 1

TwoLetterCodes ==
  {<<"M">>, <<"T", "u">>, <<"W">>, <<"T", "h">>, <<"F">>, <<"S", "a">>, <<"U">>}

LetterCodes == {<<"M">>, <<"T">>, <<"W">>, <<"R">>, <<"F">>, <<"S">>, <<"U">>}

RECURSIVE Flatten(_)
Flatten(codes) == IF codes = <<>> THEN <<>> ELSE Head(codes) \o Flatten(Tail(codes))

DayStrings ==
  {Flatten(codes) : codes \in UNION {[1..k -> TwoLetterCodes] : k \in 0..MaxDays}}
    \cup {Flatten(codes) : codes \in UNION {[1..k -> LetterCodes] : k \in 0..MaxDays}}

RECURSIVE Join(_)
\* the characters of a string in one
Join(s) == IF s = <<>> THEN "" ELSE Head(s) \o Join(Tail(s))

\* the row of the classes table, of slot CS 101 LAB 09:00-09:50 ("a") or
\* MATH 125 LEC 09:00-10:00 ("b"), whose column days holds the string d
DayRow(slot, d) ==
  [ClassSection(IF slot = "a" THEN "u4" ELSE "u6") EXCEPT
     !.uuid = slot \o "-" \o Join(d), !.days = d]

DayRows == {DayRow(slot, d) : slot \in {"a", "b"}, d \in DayStrings}

DaysTable == [d \in {c.days : c \in Sections} \cup DayStrings |-> parseDays(d)]

\* what the catalogue says of two offerings
SameSlot(u, v) ==
  /\ Catalog[u].dept = Catalog[v].dept
  /\ Catalog[u].code = Catalog[v].code
  /\ Catalog[u].component = Catalog[v].component

SharesDay(u, v) == Catalog[u].days \cap Catalog[v].days # {}

\* the half-open intervals [start, end) of u and v meet
Overlaps(u, v) ==
  /\ Catalog[u].start < Catalog[v].end
  /\ Catalog[v].start < Catalog[u].end

\* ------------------------------------------------------------------------
\* Sequence helpers (Array.prototype.some / filter / map / find)
\* ------------------------------------------------------------------------
Range(seq) == {seq[i] : i \in 1..Len(seq)}

RECURSIVE FilterIndex(_, _, _)
\* prev.filter((_, i) => i !== index), indices counted from 1 here
FilterIndex(seq, index, i) ==
  IF i > Len(seq) THEN <<>>
  ELSE (IF i # index THEN <<seq[i]>> ELSE <<>>) \o FilterIndex(seq, index, i + 1)

\* ------------------------------------------------------------------------
\* ScheduleBuilderContext: conflict check
\* ------------------------------------------------------------------------
SameComponent(item, classItem) ==
  /\ item.dept = classItem.dept
  /\ item.code = classItem.code
  /\ item.component = classItem.component

\* mutant: the test is on the array existingDays, which is always truthy
hasCommonDayTruthy(newDays, existingDays) == Len(newDays) > 0

hasCommonDay(newDays, existingDays) ==
  \E i \in 1..Len(newDays) : newDays[i] \in Range(existingDays)

\* mutant: <= and >= in place of < and >
timeOverlapClosed(newStart, newEnd, existingStart, existingEnd) ==
  /\ newStart # NaN /\ newEnd # NaN /\ existingStart # NaN /\ existingEnd # NaN
  /\ newStart <= existingEnd
  /\ existingStart <= newEnd

timeOverlap(newStart, newEnd, existingStart, existingEnd) ==
  NumLt(newStart, existingEnd) /\ NumLt(existingStart, newEnd)

\* mutant: the scan does not skip the sections of the candidate's slot
ConflictsWithOwnSlot(newClass, existing) ==
  /\ hasCommonDay(DaysTable[newClass.days], DaysTable[existing.days])
  /\ timeOverlap(DecimalTable[newClass.starttime], DecimalTable[newClass.endtime],
                 DecimalTable[existing.starttime], DecimalTable[existing.endtime])

\* whether `existing` is reported by the scan of checkTimeConflict
ConflictsWith(newClass, existing) ==
  /\ ~SameComponent(existing, newClass)
  /\ hasCommonDay(DaysTable[newClass.days], DaysTable[existing.days])
  /\ timeOverlap(DecimalTable[newClass.starttime], DecimalTable[newClass.endtime],
                 DecimalTable[existing.starttime], DecimalTable[existing.endtime])

\* timeToDecimal throws on a time of the section c
ThrowsOn(c) == Thrown \in {DecimalTable[c.starttime], DecimalTable[c.endtime]}

\* checkTimeConflict does not return: timeToDecimal throws on the new class
\* (lines 111-112), or on an existing class of another slot that the scan
\* reaches (lines 125-126) before it has returned a conflict
checkTimeConflictThrows(newClass, existingClasses) ==
  \/ ThrowsOn(newClass)
  \/ \E i \in 1..Len(existingClasses) :
       /\ ~SameComponent(existingClasses[i], newClass)
       /\ ThrowsOn(existingClasses[i])
       /\ \A j \in 1..(i - 1) : ~ConflictsWith(newClass, existingClasses[j])

NoClass == [uuid |-> "none"]

\* { conflict, conflictingClass }: the first existing class, in list order,
\* that conflicts
checkTimeConflict(newClass, existingClasses) ==
  LET hits == {i \in 1..Len(existingClasses) : ConflictsWith(newClass, existingClasses[i])}
  IN IF hits = {} THEN [conflict |-> FALSE, conflictingClass |-> NoClass]
     ELSE [conflict |-> TRUE,
           conflictingClass |-> existingClasses[CHOOSE i \in hits : \A j \in hits : i <= j]]

\* ------------------------------------------------------------------------
\* State
\* ------------------------------------------------------------------------
VARIABLES
  draftSchedule,       \* ScheduleBuilderContext: the draft's sections
  draftScheduleName,
  draftSemester,
  draftYear,           \* 0 stands for the empty value ""
  isEditingExisting,
  existingScheduleId,  \* 0 stands for null
  activeSchedule,      \* ActiveScheduleContext; NoSchedule stands for null
  userSchedules,       \* ActiveScheduleContext: the saved-schedule list
  calls,               \* addClassToDraft invocations suspended at an await
  created,             \* number of schedule rows the server has created
  lastAdd,             \* the call that has just returned, with its toast or error
  isSaving,            \* Builder page: a save of this page is under way
  saves,               \* handleSaveSchedule calls and their requests under way
  stored               \* the server's tables: for each schedule id its row and
                       \* the class uuids of its schedule_classes rows

vars == <<draftSchedule, draftScheduleName, draftSemester, draftYear,
          isEditingExisting, existingScheduleId, activeSchedule, userSchedules,
          calls, created, lastAdd, isSaving, saves, stored>>

draftVars == <<draftSchedule, draftScheduleName, draftSemester, draftYear,
               isEditingExisting, existingScheduleId>>

saveVars == <<isSaving, saves, stored>>

NoSchedule == [id |-> 0, name |-> "", semester |-> "", year |-> 0, classes |-> <<>>]

\* No addClassToDraft call has just returned
NoAdd ==
  [uuid |-> "none", outcome |-> "none", other |-> "none", active |-> FALSE, prev |-> "none"]

\* What /api/getUserSchedules returns when the providers mount: nothing for
\* a new user, or a schedule saved from a draft of an earlier session
SavedSchedule(classes) ==
  [id |-> 1, name |-> "Plan", semester |-> "Fall 2025", year |-> 2025, classes |-> classes]

PersistedSchedule == SavedSchedule(<<ClassSection("u1"), ClassSection("u4")>>)

\* the class uuids of a list of sections
UuidSet(classes) == {classes[i].uuid : i \in 1..Len(classes)}

\* the server's row for a schedule
StoredRow(schedule) ==
  [name |-> schedule.name, semester |-> schedule.semester, year |-> schedule.year,
   uuids |-> UuidSet(schedule.classes)]

\* the tables from which /api/getUserSchedules has produced the list
StoredFor(list) ==
  [id \in {list[k].id : k \in 1..Len(list)} |->
     StoredRow(list[CHOOSE k \in 1..Len(list) : list[k].id = id])]

Init ==
  /\ draftSchedule = <<>>
  /\ draftScheduleName = ""
  /\ draftSemester = ""
  /\ draftYear = 0
  /\ isEditingExisting = FALSE
  /\ existingScheduleId = 0
  /\ activeSchedule = NoSchedule
  /\ userSchedules \in {<<>>, <<PersistedSchedule>>}
  /\ calls = EmptyBag
  /\ created = Len(userSchedules)
  /\ lastAdd = NoAdd
  /\ isSaving = FALSE
  /\ saves = EmptyBag
  /\ stored = StoredFor(userSchedules)

\* ------------------------------------------------------------------------
\* ScheduleBuilderContext: the effect on [activeSchedule?.id]
\* ------------------------------------------------------------------------
\* mutant: the effect has no guard for the schedule that is being edited
HydratesAlways(a, editing, existingId) ==
  a.id # 0

\* Whether the effect, run for active schedule a, overwrites the draft
Hydrates(a, editing, existingId) ==
  /\ a.id # 0
  /\ ~(editing /\ existingId = a.id)

\* The effect that runs after a handler has changed activeSchedule?.id from
\* oldId to a.id; editing and existingId are the values the handler leaves.
HydrateEffect(oldId, a, draft, name, semester, year, editing, existingId) ==
  IF a.id # oldId /\ Hydrates(a, editing, existingId)
    THEN /\ draftSchedule' = a.classes
         /\ draftScheduleName' = a.name
         /\ draftSemester' = a.semester
         /\ draftYear' = a.year
         /\ isEditingExisting' = TRUE
         /\ existingScheduleId' = a.id
    ELSE /\ draftSchedule' = draft
         /\ draftScheduleName' = name
         /\ draftSemester' = semester
         /\ draftYear' = year
         /\ isEditingExisting' = editing
         /\ existingScheduleId' = existingId

\* ------------------------------------------------------------------------
\* ScheduleBuilderContext.addClassToDraft
\* ------------------------------------------------------------------------
\* mutant: the time conflict check comes before the check for the uuid
ClassifyConflictFirst(classItem, draft) ==
  LET exists == \E i \in 1..Len(draft) : draft[i].uuid = classItem.uuid
      sameComponentExists == \E i \in 1..Len(draft) : SameComponent(draft[i], classItem)
      conflictCheck == checkTimeConflict(classItem, draft)
      oldClass == draft[CHOOSE i \in 1..Len(draft) : SameComponent(draft[i], classItem)]
  IN IF conflictCheck.conflict
       THEN [outcome |-> "conflict", other |-> conflictCheck.conflictingClass.uuid]
     ELSE IF exists THEN [outcome |-> "duplicate", other |-> classItem.uuid]
     ELSE IF sameComponentExists
       THEN [outcome |-> "replaced", other |-> oldClass.uuid]
     ELSE [outcome |-> "added", other |-> "none"]

\* The checks of addClassToDraft on the draftSchedule of its closure; the
\* outcome is the toast shown, or TypeError when checkTimeConflict throws and
\* the call ends there, its promise rejected
Classify(classItem, draft) ==
  LET exists == \E i \in 1..Len(draft) : draft[i].uuid = classItem.uuid
      sameComponentExists == \E i \in 1..Len(draft) : SameComponent(draft[i], classItem)
      conflictCheck == checkTimeConflict(classItem, draft)
      oldClass == draft[CHOOSE i \in 1..Len(draft) :
                          /\ SameComponent(draft[i], classItem)
                          /\ \A j \in 1..(i - 1) : ~SameComponent(draft[j], classItem)]
  IN IF exists THEN [outcome |-> "duplicate", other |-> classItem.uuid]
     ELSE IF checkTimeConflictThrows(classItem, draft)
       THEN [outcome |-> "TypeError", other |-> "none"]
     ELSE IF conflictCheck.conflict
       THEN [outcome |-> "conflict", other |-> conflictCheck.conflictingClass.uuid]
     ELSE IF sameComponentExists
       THEN [outcome |-> "replaced", other |-> oldClass.uuid]
     ELSE [outcome |-> "added", other |-> "none"]

\* prev.map(item => same dept, code, component ? classItem : item)
ReplaceSameComponent(prev, classItem) ==
  [i \in 1..Len(prev) |-> IF SameComponent(prev[i], classItem) THEN classItem ELSE prev[i]]

\* mutant: no return after the duplicate and conflict toasts, the call goes
\* on to append
ApplyOutcomeNoReturn(outcome, classItem, prev) ==
  IF outcome = "replaced" THEN ReplaceSameComponent(prev, classItem)
  ELSE Append(prev, classItem)

\* The updater handed to setDraftSchedule for an outcome, applied to the
\* state prev at the time the update is processed
ApplyOutcome(outcome, classItem, prev) ==
  IF outcome = "replaced" THEN ReplaceSameComponent(prev, classItem)
  ELSE IF outcome = "added" THEN Append(prev, classItem)
  ELSE prev

\* the toast and state update of addClassToDraft for the result c of its checks
CommitAdd(classItem, c, active) ==
  /\ Len(ApplyOutcome(c.outcome, classItem, draftSchedule)) <= MaxDraft
  /\ draftSchedule' = ApplyOutcome(c.outcome, classItem, draftSchedule)
  /\ lastAdd' = [uuid |-> classItem.uuid, outcome |-> c.outcome, other |-> c.other,
                 active |-> active,
                 prev |-> IF lastAdd.uuid = classItem.uuid THEN lastAdd.outcome
                          ELSE "none"]

\* from line 204 on: classify against the closure's draftSchedule, then update
\* the state.  lastAdd is the toast shown, with the section it is about,
\* whether a schedule was active when the call was made, and the toast of
\* the call before it when that call was for the same section and nothing
\* happened in between.
FinishAdd(classItem, read, active) ==
  CommitAdd(classItem, Classify(classItem, read), active)

\* A click on a section while a schedule is active: no await is reached and
\* the call runs to its end within the click handler.
AddClassToDraft(u) ==
  /\ activeSchedule.id # 0
  /\ FinishAdd(ClassSection(u), draftSchedule, TRUE)
  /\ UNCHANGED <<draftScheduleName, draftSemester, draftYear, isEditingExisting,
                 existingScheduleId, activeSchedule, userSchedules, calls, created>>
  /\ UNCHANGED saveVars

\* the schedule /api/createSchedule is asked for, as addScheduleToList gets it
UntitledSchedule(id) ==
  [id |-> id, name |-> "Untitled", semester |-> "Spring 2026", year |-> 2026,
   classes |-> <<>>]

\* A click on a section while no schedule is active: the call posts to
\* /api/createSchedule and is suspended with the draftSchedule of its render.
\* The server has MaxSchedules rows to give: a request is made only while
\* the requests under way can all be granted one.
AddClassToDraftCreate(u) ==
  /\ activeSchedule.id = 0
  /\ created + BagCardinality(calls) < MaxSchedules
  /\ calls' = calls (+) SetToBag({[classItem |-> ClassSection(u),
                                   draftSchedule |-> draftSchedule, pc |-> "fetch"]})
  /\ lastAdd' = NoAdd
  /\ UNCHANGED <<draftVars, activeSchedule, userSchedules, created>>
  /\ UNCHANGED saveVars

\* !response.ok, or fetch rejected: error toast, return
CreateScheduleFailed(call) ==
  /\ call.pc = "fetch"
  /\ calls' = calls (-) SetToBag({call})
  /\ lastAdd' = [uuid |-> call.classItem.uuid, outcome |-> "createFailed",
                 other |-> "none", active |-> FALSE, prev |-> "none"]
  /\ UNCHANGED <<draftVars, activeSchedule, userSchedules, created>>
  /\ UNCHANGED saveVars

\* response.ok: addScheduleToList(newSchedule), then the 100 ms wait, during
\* which the effect on the new active schedule runs
CreateScheduleOk(call) ==
  /\ call.pc = "fetch"
  /\ created < MaxSchedules
  /\ LET newSchedule == UntitledSchedule(created + 1)
     IN /\ userSchedules' = <<newSchedule>> \o userSchedules
        /\ activeSchedule' = newSchedule
        /\ HydrateEffect(activeSchedule.id, newSchedule, draftSchedule, draftScheduleName,
                         draftSemester, draftYear, isEditingExisting, existingScheduleId)
  /\ created' = created + 1
  /\ calls' = (calls (-) SetToBag({call})) (+) SetToBag({[call EXCEPT !.pc = "wait"]})
  /\ lastAdd' = NoAdd
  /\ stored' = (created + 1 :> StoredRow(UntitledSchedule(created + 1))) @@ stored
  /\ UNCHANGED <<isSaving, saves>>

\* the call resumes after the wait
AddClassResume(call) ==
  /\ call.pc = "wait"
  /\ FinishAdd(call.classItem, call.draftSchedule, FALSE)
  /\ calls' = calls (-) SetToBag({call})
  /\ UNCHANGED <<draftScheduleName, draftSemester, draftYear, isEditingExisting,
                 existingScheduleId, activeSchedule, userSchedules, created>>
  /\ UNCHANGED saveVars

\* ------------------------------------------------------------------------
\* ScheduleBuilderContext: the other mutators
\* ------------------------------------------------------------------------
\* What the handler that has just returned has thrown, when it was not an
\* addClassToDraft call: draftSchedule[index] is undefined and the toast of
\* removeClassFromDraft reads its dept
TypeErrorThrown == [NoAdd EXCEPT !.outcome = "TypeError"]

\* removeClassFromDraft(index - 1): positions are counted from 1 here.  The
\* filter of the updater drops nothing when no section is at the position;
\* the toast that follows reads the section at the position.
removeClassFromDraft(index) ==
  /\ draftSchedule' = FilterIndex(draftSchedule, index, 1)
  /\ lastAdd' = IF index \in 1..Len(draftSchedule) THEN NoAdd ELSE TypeErrorThrown
  /\ UNCHANGED <<draftScheduleName, draftSemester, draftYear, isEditingExisting,
                 existingScheduleId, activeSchedule, userSchedules, calls, created>>
  /\ UNCHANGED saveVars

clearDraft ==
  /\ draftSchedule' = <<>>
  /\ isEditingExisting' = FALSE
  /\ lastAdd' = NoAdd
  /\ UNCHANGED <<draftScheduleName, draftSemester, draftYear, existingScheduleId,
                 activeSchedule, userSchedules, calls, created>>
  /\ UNCHANGED saveVars

\* What is kept of a load of a saved schedule that has just been made:
\* whether it has written the draft ("loaded") or has returned at the guard
\* of the effect ("skipped") and, in prev, whether the call before it was a
\* load of the schedule with the same id (which the draft is then linked to)
LoadCall(schedule, written) ==
  [NoAdd EXCEPT !.outcome = IF written THEN "loaded" ELSE "skipped",
                !.prev = IF /\ lastAdd.outcome \in {"loaded", "skipped"}
                            /\ existingScheduleId = schedule.id
                           THEN lastAdd.outcome ELSE "none"]

\* mutant: the sections of the saved schedule are added to those of the draft
loadExistingAppends(schedule) ==
  /\ draftSchedule' = draftSchedule \o schedule.classes
  /\ draftScheduleName' = schedule.name
  /\ draftSemester' = schedule.semester
  /\ draftYear' = schedule.year
  /\ isEditingExisting' = TRUE
  /\ existingScheduleId' = schedule.id
  /\ lastAdd' = LoadCall(schedule, TRUE)
  /\ UNCHANGED <<activeSchedule, userSchedules, calls, created>>
  /\ UNCHANGED saveVars

loadExistingScheduleIntoDraft(schedule) ==
  /\ draftSchedule' = schedule.classes
  /\ draftScheduleName' = schedule.name
  /\ draftSemester' = schedule.semester
  /\ draftYear' = schedule.year
  /\ isEditingExisting' = TRUE
  /\ existingScheduleId' = schedule.id
  /\ lastAdd' = LoadCall(schedule, TRUE)
  /\ UNCHANGED <<activeSchedule, userSchedules, calls, created>>
  /\ UNCHANGED saveVars

\* ------------------------------------------------------------------------
\* ActiveScheduleContext and the Sidebar
\* ------------------------------------------------------------------------
\* Sidebar: a click on a saved schedule, loadSchedule(scheduleId)
loadSchedule(k) ==
  /\ k \in 1..Len(userSchedules)
  /\ userSchedules[k].id # activeSchedule.id
  /\ \A j \in 1..(k - 1) : userSchedules[j].id # userSchedules[k].id
  /\ activeSchedule' = userSchedules[k]
  /\ HydrateEffect(activeSchedule.id, userSchedules[k], draftSchedule, draftScheduleName,
                   draftSemester, draftYear, isEditingExisting, existingScheduleId)
  /\ lastAdd' = LoadCall(userSchedules[k],
                          Hydrates(userSchedules[k], isEditingExisting, existingScheduleId))
  /\ UNCHANGED <<userSchedules, calls, created>>
  /\ UNCHANGED saveVars

\* ActiveScheduleContext.updateScheduleInList / removeScheduleFromList
UpdateInList(list, scheduleId, updatedSchedule) ==
  [j \in 1..Len(list) |-> IF list[j].id = scheduleId THEN updatedSchedule ELSE list[j]]

RECURSIVE RemoveFromList(_, _)
RemoveFromList(list, scheduleId) ==
  IF list = <<>> THEN <<>>
  ELSE (IF Head(list).id # scheduleId THEN <<Head(list)>> ELSE <<>>)
         \o RemoveFromList(Tail(list), scheduleId)

\* Sidebar.handleDeleteSchedule, performDelete once /api/deleteSchedule has
\* answered ok: removeScheduleFromList, setActiveSchedule(null), clearDraft
deleteSchedule(k) ==
  /\ k \in 1..Len(userSchedules)
  /\ userSchedules' = RemoveFromList(userSchedules, userSchedules[k].id)
  /\ activeSchedule' = NoSchedule
  /\ draftSchedule' = <<>>
  /\ isEditingExisting' = FALSE
  /\ lastAdd' = NoAdd
  /\ UNCHANGED <<draftScheduleName, draftSemester, draftYear, existingScheduleId,
                 calls, created>>
  /\ stored' = [id \in DOMAIN stored \ {userSchedules[k].id} |-> stored[id]]
  /\ UNCHANGED <<isSaving, saves>>

Next ==
  \/ \E u \in Offered : AddClassToDraft(u)
  \/ \E u \in Offered : AddClassToDraftCreate(u)
  \/ \E call \in BagToSet(calls) : CreateScheduleFailed(call)
  \/ \E call \in BagToSet(calls) : CreateScheduleOk(call)
  \/ \E call \in BagToSet(calls) : AddClassResume(call)
  \/ \E index \in 0..(MaxDraft + 1) : removeClassFromDraft(index)
  \/ clearDraft
  \/ \E k \in 1..Len(userSchedules) : loadExistingScheduleIntoDraft(userSchedules[k])
  \/ \E k \in 1..MaxSchedules : loadSchedule(k)
  \/ \E k \in 1..MaxSchedules : deleteSchedule(k)

Spec == Init /\ [][Next]_vars

\* ------------------------------------------------------------------------
\* The conflict resolver on its own.  The schedule that addClassToDraft has
\* created is active, and the draft is any list of sections: calls that were
\* suspended while it was created append without a check (see
\* AddClassResume), so every list can be reached.  From there every add
\* runs within its click handler.
\* ------------------------------------------------------------------------
SeqsUpTo(S, n) == UNION {[1..k -> S] : k \in 0..n}

InitResolver ==
  /\ draftSchedule \in SeqsUpTo(Sections, MaxDraft)
  /\ draftScheduleName = UntitledSchedule(1).name
  /\ draftSemester = UntitledSchedule(1).semester
  /\ draftYear = UntitledSchedule(1).year
  /\ isEditingExisting = TRUE
  /\ existingScheduleId = 1
  /\ activeSchedule = UntitledSchedule(1)
  /\ userSchedules = <<UntitledSchedule(1)>>
  /\ calls = EmptyBag
  /\ created = 1
  /\ lastAdd = NoAdd
  /\ isSaving = FALSE
  /\ saves = EmptyBag
  /\ stored = StoredFor(userSchedules)

NextResolver ==
  \/ \E u \in Uuids : AddClassToDraft(u)
  \/ \E index \in 1..MaxDraft : removeClassFromDraft(index)
  \/ clearDraft

SpecResolver == InitResolver /\ [][NextResolver]_vars

\* ------------------------------------------------------------------------
\* Builder page: handleSaveSchedule, and /api/saveSchedule
\* ------------------------------------------------------------------------
\* bound: save requests under way at a time
MaxSaves == 2

\* areSchedulesEqual(activeSchedule?.classes, draftSchedule); a is undefined
\* when no schedule is active
areSchedulesEqual(a, b) ==
  IF a.id = 0 THEN FALSE
  ELSE IF Len(a.classes) # Len(b) THEN FALSE
  ELSE IF Cardinality(UuidSet(a.classes)) # Cardinality(UuidSet(b)) THEN FALSE
  ELSE UuidSet(a.classes) \subseteq UuidSet(b)

schedulesMatch == areSchedulesEqual(activeSchedule, draftSchedule)

\* the request of a handleSaveSchedule call with what the rest of the call
\* reads from its closure; target is the schedule id the server works on,
\* mounted tells that the page that made the call is still the one shown,
\* afterLoad that the call before this one was a load that wrote the draft
SaveRequest ==
  [scheduleId |-> existingScheduleId, name |-> draftScheduleName,
   semester |-> draftSemester, year |-> draftYear, classes |-> draftSchedule,
   activeId |-> activeSchedule.id, target |-> 0, mounted |-> TRUE,
   afterLoad |-> lastAdd.outcome = "loaded", pc |-> "sent"]

SaveCall(outcome) == [NoAdd EXCEPT !.outcome = outcome]

\* the request req goes on as next
Forward(req, next) == (saves (-) SetToBag({req})) (+) SetToBag({next})

\* A click on the save button, which is disabled while isSaving or
\* schedulesMatch.  Without name, semester or year: error toast, return.
handleSaveSchedule ==
  /\ ~isSaving
  /\ ~schedulesMatch
  /\ BagCardinality(saves) < MaxSaves
  /\ IF draftScheduleName = "" \/ draftSemester = "" \/ draftYear = 0
       THEN /\ lastAdd' = SaveCall("saveInvalid")
            /\ UNCHANGED saveVars
       ELSE /\ lastAdd' = NoAdd
            /\ isSaving' = TRUE
            /\ saves' = saves (+) SetToBag({SaveRequest})
            /\ UNCHANGED stored
  /\ UNCHANGED <<draftVars, activeSchedule, userSchedules, calls, created>>

\* The Builder page is mounted anew (the user has left the page and come
\* back) while the providers stay: useState(false) for isSaving; calls of
\* the page before go on with the setters of that page.
BuilderMount ==
  /\ saves # EmptyBag
  /\ \E req \in BagToSet(saves) : req.mounted
  /\ isSaving' = FALSE
  /\ saves' = BagOfAll(LAMBDA req : [req EXCEPT !.mounted = FALSE], saves)
  /\ lastAdd' = NoAdd
  /\ UNCHANGED <<draftVars, activeSchedule, userSchedules, calls, created, stored>>

\* /api/saveSchedule with a scheduleId: ownership check (404), update of the
\* row in allschedules, delete of the schedule's rows in schedule_classes.
\* Without one: insert into allschedules and userschedule.
SaveClearClasses(req) ==
  /\ req.pc = "sent"
  /\ IF req.scheduleId # 0
       THEN IF req.scheduleId \in DOMAIN stored
              THEN /\ stored' = [stored EXCEPT ![req.scheduleId] =
                                   [name |-> req.name, semester |-> req.semester,
                                    year |-> req.year, uuids |-> {}]]
                   /\ saves' = Forward(req, [req EXCEPT !.pc = "cleared",
                                                        !.target = req.scheduleId])
                   /\ UNCHANGED created
              ELSE /\ saves' = Forward(req, [req EXCEPT !.pc = "failed"])
                   /\ UNCHANGED <<stored, created>>
       ELSE /\ created < MaxSchedules
            /\ stored' = (created + 1 :> [name |-> req.name, semester |-> req.semester,
                                          year |-> req.year, uuids |-> {}]) @@ stored
            /\ created' = created + 1
            /\ saves' = Forward(req, [req EXCEPT !.pc = "cleared", !.target = created + 1])
  /\ lastAdd' = NoAdd
  /\ UNCHANGED <<draftVars, activeSchedule, userSchedules, calls, isSaving>>

\* the insert of the rows violates UNIQUE(scheduleid, class_uuid), or the
\* schedule's row is gone
InsertFails(req) ==
  \/ req.target \notin DOMAIN stored
  \/ Cardinality(UuidSet(req.classes)) # Len(req.classes)
  \/ UuidSet(req.classes) \cap stored[req.target].uuids # {}

\* /api/saveSchedule, step 4: one insert of a row per class of the request;
\* its error is answered with status 500
SaveInsertClasses(req) ==
  /\ req.pc = "cleared"
  /\ IF req.classes # <<>> /\ InsertFails(req)
       THEN /\ saves' = Forward(req, [req EXCEPT !.pc = "failed"])
            /\ UNCHANGED stored
       ELSE /\ saves' = Forward(req, [req EXCEPT !.pc = "ok"])
            /\ stored' = [stored EXCEPT ![req.target].uuids = @ \cup UuidSet(req.classes)]
  /\ lastAdd' = NoAdd
  /\ UNCHANGED <<draftVars, activeSchedule, userSchedules, calls, created, isSaving>>

\* the request is not answered ok: no session on the server, an error of
\* the database at any of its steps, or the fetch is rejected
SaveRejected(req) ==
  /\ req.pc \in {"sent", "cleared"}
  /\ saves' = Forward(req, [req EXCEPT !.pc = "failed"])
  /\ lastAdd' = NoAdd
  /\ UNCHANGED <<draftVars, activeSchedule, userSchedules, calls, created, isSaving,
                 stored>>

\* mutant: the catch of handleSaveSchedule drops the sections of the draft
SaveFailedDropsDraft(req) ==
  /\ req.pc = "failed"
  /\ saves' = saves (-) SetToBag({req})
  /\ isSaving' = IF req.mounted THEN FALSE ELSE isSaving
  /\ lastAdd' = SaveCall("saveFailed")
  /\ draftSchedule' = <<>>
  /\ UNCHANGED <<draftScheduleName, draftSemester, draftYear, isEditingExisting,
                 existingScheduleId, activeSchedule, userSchedules, calls, created, stored>>

\* catch and finally of handleSaveSchedule: error toast, setIsSaving(false)
SaveFailed(req) ==
  /\ req.pc = "failed"
  /\ saves' = saves (-) SetToBag({req})
  /\ isSaving' = IF req.mounted THEN FALSE ELSE isSaving
  /\ lastAdd' = SaveCall("saveFailed")
  /\ UNCHANGED <<draftVars, activeSchedule, userSchedules, calls, created, stored>>

\* savedSchedule of handleSaveSchedule
SavedFrom(req) ==
  [id |-> req.target, name |-> req.name, semester |-> req.semester, year |-> req.year,
   classes |-> req.classes]

\* response.ok: updateScheduleInList for a draft that was linked, whose
\* activeSchedule is the one of the call's render; addScheduleToList and
\* the link of the draft otherwise; then the effect on activeSchedule?.id
SaveOk(req) ==
  /\ req.pc = "ok"
  /\ IF req.scheduleId # 0
       THEN /\ userSchedules' = UpdateInList(userSchedules, req.scheduleId, SavedFrom(req))
            /\ activeSchedule' = IF req.activeId = req.scheduleId THEN SavedFrom(req)
                                 ELSE activeSchedule
            /\ HydrateEffect(activeSchedule.id,
                             IF req.activeId = req.scheduleId THEN SavedFrom(req)
                             ELSE activeSchedule,
                             draftSchedule, draftScheduleName, draftSemester, draftYear,
                             isEditingExisting, existingScheduleId)
       ELSE /\ userSchedules' = <<SavedFrom(req)>> \o userSchedules
            /\ activeSchedule' = SavedFrom(req)
            /\ HydrateEffect(activeSchedule.id, SavedFrom(req),
                             draftSchedule, draftScheduleName, draftSemester, draftYear,
                             TRUE, req.target)
  /\ saves' = Forward(req, [req EXCEPT !.pc = "refetch"])
  /\ lastAdd' = SaveCall("saved")
  /\ UNCHANGED <<calls, created, isSaving, stored>>

\* the rows of the catalogue in the order of the allclasses table
CatalogOrder == <<"u1", "u2", "u3", "u4", "u5", "u6", "u7", "u8", "u9", "u10", "u11", "u12">>

RECURSIVE ClassesFrom(_, _)
\* the sections with the given uuids, in the order of the catalogue, from
\* position i on
ClassesFrom(uuids, i) ==
  IF i > Len(CatalogOrder) THEN <<>>
  ELSE (IF CatalogOrder[i] \in uuids THEN <<ClassSection(CatalogOrder[i])>> ELSE <<>>)
         \o ClassesFrom(uuids, i + 1)

RECURSIVE NewestFirst(_)
\* .order("createdat", { ascending: false }): ids are given in the order of
\* creation
NewestFirst(ids) ==
  IF ids = {} THEN <<>>
  ELSE <<CHOOSE i \in ids : \A j \in ids : j <= i>>
         \o NewestFirst(ids \ {CHOOSE i \in ids : \A j \in ids : j <= i})

\* what /api/getUserSchedules answers
ServerSchedules ==
  [k \in 1..Cardinality(DOMAIN stored) |->
     [id |-> NewestFirst(DOMAIN stored)[k],
      name |-> stored[NewestFirst(DOMAIN stored)[k]].name,
      semester |-> stored[NewestFirst(DOMAIN stored)[k]].semester,
      year |-> stored[NewestFirst(DOMAIN stored)[k]].year,
      classes |-> ClassesFrom(stored[NewestFirst(DOMAIN stored)[k]].uuids, 1)]]

\* await fetchUserSchedules() has returned, with the list or, when the
\* request has failed, with the list emptied; finally: setIsSaving(false)
SaveRefreshed(req, ok) ==
  /\ req.pc = "refetch"
  /\ userSchedules' = IF ok THEN ServerSchedules ELSE <<>>
  /\ saves' = saves (-) SetToBag({req})
  /\ isSaving' = IF req.mounted THEN FALSE ELSE isSaving
  /\ lastAdd' = NoAdd
  /\ UNCHANGED <<draftVars, activeSchedule, calls, created, stored>>

\* ------------------------------------------------------------------------
\* Saving.  The user has one saved schedule and none is active.  In SpecSave
\* the user loads it into the draft, removes sections and saves, and leaves
\* and re-enters the Builder page; no section is added.  In SpecPersist
\* the user adds a section, removes, loads and saves on one Builder page.
\* The server has one row left to give (the rows it has created besides the
\* user's schedule have been deleted since).
\* ------------------------------------------------------------------------
InitSave ==
  /\ draftSchedule = <<>>
  /\ draftScheduleName = ""
  /\ draftSemester = ""
  /\ draftYear = 0
  /\ isEditingExisting = FALSE
  /\ existingScheduleId = 0
  /\ activeSchedule = NoSchedule
  /\ userSchedules = <<PersistedSchedule>>
  /\ calls = EmptyBag
  /\ created = MaxSchedules - 1
  /\ lastAdd = NoAdd
  /\ isSaving = FALSE
  /\ saves = EmptyBag
  /\ stored = StoredFor(userSchedules)

NextSave ==
  \/ \E index \in 1..MaxDraft : removeClassFromDraft(index)
  \/ \E k \in 1..Len(userSchedules) : loadExistingScheduleIntoDraft(userSchedules[k])
  \/ handleSaveSchedule
  \/ BuilderMount
  \/ \E req \in BagToSet(saves) : SaveClearClasses(req)
  \/ \E req \in BagToSet(saves) : SaveInsertClasses(req)
  \/ \E req \in BagToSet(saves) : SaveRejected(req)
  \/ \E req \in BagToSet(saves) : SaveFailed(req)
  \/ \E req \in BagToSet(saves) : SaveOk(req)
  \/ \E req \in BagToSet(saves) : \E ok \in BOOLEAN : SaveRefreshed(req, ok)

SpecSave == InitSave /\ [][NextSave]_vars

\* the section the user clicks in SpecPersist
OfferedPersist == {"u2"}

NextPersist ==
  \/ \E u \in OfferedPersist : AddClassToDraft(u)
  \/ \E u \in OfferedPersist : AddClassToDraftCreate(u)
  \/ \E call \in BagToSet(calls) : CreateScheduleFailed(call)
  \/ \E call \in BagToSet(calls) : CreateScheduleOk(call)
  \/ \E call \in BagToSet(calls) : AddClassResume(call)
  \/ \E index \in 1..MaxDraft : removeClassFromDraft(index)
  \/ \E k \in 1..Len(userSchedules) : loadExistingScheduleIntoDraft(userSchedules[k])
  \/ handleSaveSchedule
  \/ \E req \in BagToSet(saves) : SaveClearClasses(req)
  \/ \E req \in BagToSet(saves) : SaveInsertClasses(req)
  \/ \E req \in BagToSet(saves) : SaveRejected(req)
  \/ \E req \in BagToSet(saves) : SaveFailed(req)
  \/ \E req \in BagToSet(saves) : SaveOk(req)
  \/ \E req \in BagToSet(saves) : \E ok \in BOOLEAN : SaveRefreshed(req, ok)

SpecPersist == InitSave /\ [][NextPersist]_vars

\* ------------------------------------------------------------------------
\* The conflict check on time strings of every shape: the schedule created
\* for the first add is active and its draft holds the one section whose
\* start or end time is a string of TimeStrings; the sections of Offered are
\* then clicked.
\* ------------------------------------------------------------------------
InitTime ==
  /\ \E field \in {"starttime", "endtime"} : \E t \in TimeStrings :
       draftSchedule = <<TimedSection(field, t)>>
  /\ draftScheduleName = UntitledSchedule(1).name
  /\ draftSemester = UntitledSchedule(1).semester
  /\ draftYear = UntitledSchedule(1).year
  /\ isEditingExisting = TRUE
  /\ existingScheduleId = 1
  /\ activeSchedule = UntitledSchedule(1)
  /\ userSchedules = <<UntitledSchedule(1)>>
  /\ calls = EmptyBag
  /\ created = 1
  /\ lastAdd = NoAdd
  /\ isSaving = FALSE
  /\ saves = EmptyBag
  /\ stored = StoredFor(userSchedules)

NextTime == \E u \in Offered : AddClassToDraft(u)

SpecTime == InitTime /\ [][NextTime]_vars

\* The same with a section whose start or end time is a well-formed string
\* of any minute of the day
InitClock ==
  /\ \E field \in {"starttime", "endtime"} : \E t \in ClockTimes :
       draftSchedule = <<TimedSection(field, t)>>
  /\ draftScheduleName = UntitledSchedule(1).name
  /\ draftSemester = UntitledSchedule(1).semester
  /\ draftYear = UntitledSchedule(1).year
  /\ isEditingExisting = TRUE
  /\ existingScheduleId = 1
  /\ activeSchedule = UntitledSchedule(1)
  /\ userSchedules = <<UntitledSchedule(1)>>
  /\ calls = EmptyBag
  /\ created = 1
  /\ lastAdd = NoAdd
  /\ isSaving = FALSE
  /\ saves = EmptyBag
  /\ stored = StoredFor(userSchedules)

\* one section of another slot, meeting on Thursday 9:30-10:20, is clicked
NextClock == \E u \in OfferedPersist : AddClassToDraft(u)

SpecClock == InitClock /\ [][NextClock]_vars

\* ------------------------------------------------------------------------
\* /api/addClass: the conflict check of the server
\* ------------------------------------------------------------------------
\* toUpperCase() of a character of a day string
ToUpperLetter(ch) ==
  IF ch = "u" THEN "U" ELSE IF ch = "h" THEN "H" ELSE IF ch = "r" THEN "R"
  ELSE IF ch = "t" THEN "T" ELSE ToUpperChar(ch)

DAY_CHARS == {"M", "T", "W", "R", "F", "S", "U"}

\* parseDays of the route: the set of the day characters of the string
addClassParseDays(days) ==
  {ToUpperLetter(Trim(days)[i]) : i \in 1..Len(Trim(days))} \cap DAY_CHARS

\* null
Null == -3

\* toMinutes: /^(\d{1,2}):(\d{2})$/ on the trimmed string, else null
toMinutes(hhmm) ==
  LET parts == Split(Trim(hhmm), ":")
      AllDigits(p) == \A i \in 1..Len(p) : IsDigit(p[i])
  IN IF /\ hhmm # <<>>
        /\ Len(parts) = 2
        /\ Len(parts[1]) \in {1, 2} /\ AllDigits(parts[1])
        /\ Len(parts[2]) = 2 /\ AllDigits(parts[2])
       THEN DigitsValue(parts[1], 0) * 60 + DigitsValue(parts[2], 0)
       ELSE Null

timesOverlap(aStart, aEnd, bStart, bEnd) == aStart < bEnd /\ bStart < aEnd

\* the row of allclasses with a uuid
allclasses(uuid) == CHOOSE row \in Sections \cup DayRows : row.uuid = uuid

\* [...tgtDays].some((d) => ecDays.has(d))
dayOverlap(tgtDays, ecDays) == tgtDays \cap ecDays # {}

\* step 4 of the route: the classes of the schedule that conflict with target
addClassConflicts(target, existingUuids) ==
  LET tgtDays == addClassParseDays(target.days)
      tgtStart == toMinutes(target.starttime)
      tgtEnd == toMinutes(target.endtime)
  IN IF tgtStart # Null /\ tgtEnd # Null /\ tgtEnd > tgtStart /\ tgtDays # {}
       THEN {u \in existingUuids :
               /\ dayOverlap(tgtDays, addClassParseDays(allclasses(u).days))
               /\ toMinutes(allclasses(u).starttime) # Null
               /\ toMinutes(allclasses(u).endtime) # Null
               /\ toMinutes(allclasses(u).endtime) > toMinutes(allclasses(u).starttime)
               /\ timesOverlap(tgtStart, tgtEnd, toMinutes(allclasses(u).starttime),
                               toMinutes(allclasses(u).endtime))}
       ELSE {}

\* what the route answers: 409 for a class of the schedule, 409 for a time
\* conflict unless allowConflict, else 200, with warnings when it conflicts
addClassResponse(scheduleid, classUuid, allowConflict) ==
  LET conflicts == addClassConflicts(allclasses(classUuid), stored[scheduleid].uuids)
  IN IF classUuid \in stored[scheduleid].uuids
       THEN [NoAdd EXCEPT !.uuid = classUuid, !.outcome = "alreadyInSchedule"]
     ELSE IF conflicts # {} /\ ~allowConflict
       THEN [NoAdd EXCEPT !.uuid = classUuid, !.outcome = "timeConflict",
                          !.other = CHOOSE u \in conflicts : TRUE]
     ELSE [NoAdd EXCEPT !.uuid = classUuid, !.outcome = "inserted",
                        !.other = IF conflicts # {} THEN "warnings" ELSE "none"]

\* POST /api/addClass { scheduleid, classUuid, allowConflict } for a schedule
\* and a class that exist; the schedule holds fewer than MaxDraft classes
addClassPOST(scheduleid, classUuid, allowConflict) ==
  /\ scheduleid \in DOMAIN stored
  /\ Cardinality(stored[scheduleid].uuids) < MaxDraft
  /\ lastAdd' = addClassResponse(scheduleid, classUuid, allowConflict)
  /\ stored' = IF lastAdd'.outcome = "inserted"
                 THEN [stored EXCEPT ![scheduleid].uuids = @ \cup {classUuid}]
                 ELSE stored
  /\ UNCHANGED <<draftVars, activeSchedule, userSchedules, calls, created,
                 isSaving, saves>>

\* a click on the section of slot "b" with the day string d while a schedule
\* is active
AddDayRow(d) ==
  /\ activeSchedule.id # 0
  /\ FinishAdd(DayRow("b", d), draftSchedule, TRUE)
  /\ UNCHANGED <<draftScheduleName, draftSemester, draftYear, isEditingExisting,
                 existingScheduleId, activeSchedule, userSchedules, calls, created>>
  /\ UNCHANGED saveVars

\* the active schedule holds the section of slot "a" with any day string, on
\* the server and in the draft
DaySchedule(d) == [UntitledSchedule(1) EXCEPT !.classes = <<DayRow("a", d)>>]

InitDays ==
  /\ \E d \in DayStrings :
       /\ activeSchedule = DaySchedule(d)
       /\ userSchedules = <<DaySchedule(d)>>
       /\ draftSchedule = DaySchedule(d).classes
  /\ draftScheduleName = UntitledSchedule(1).name
  /\ draftSemester = UntitledSchedule(1).semester
  /\ draftYear = UntitledSchedule(1).year
  /\ isEditingExisting = TRUE
  /\ existingScheduleId = 1
  /\ calls = EmptyBag
  /\ created = 1
  /\ lastAdd = NoAdd
  /\ isSaving = FALSE
  /\ saves = EmptyBag
  /\ stored = StoredFor(userSchedules)

NextDays ==
  \/ \E d \in DayStrings : AddDayRow(d)
  \/ \E d \in DayStrings : \E allowConflict \in BOOLEAN :
       addClassPOST(activeSchedule.id, DayRow("b", d).uuid, allowConflict)

SpecDays == InitDays /\ [][NextDays]_vars

\* ------------------------------------------------------------------------
\* The active schedule seen again: rename, refresh of the list, reload
\* ------------------------------------------------------------------------
RenamedTo == "Renamed"

\* Sidebar.handleRenameSchedule once /api/renameSchedule has answered: the
\* row is renamed and updateScheduleInList puts the renamed schedule in the
\* list and, when it is the active one, in activeSchedule (same id: the
\* effect does not run); or 404 for a schedule the server does not have
handleRenameSchedule(k, newName) ==
  /\ k \in 1..Len(userSchedules)
  /\ IF userSchedules[k].id \in DOMAIN stored
       THEN /\ stored' = [stored EXCEPT ![userSchedules[k].id].name = newName]
            /\ userSchedules' = UpdateInList(userSchedules, userSchedules[k].id,
                                            [userSchedules[k] EXCEPT !.name = newName])
            /\ activeSchedule' = IF activeSchedule.id = userSchedules[k].id
                                   THEN [userSchedules[k] EXCEPT !.name = newName]
                                   ELSE activeSchedule
            /\ lastAdd' = SaveCall("renamed")
       ELSE /\ lastAdd' = SaveCall("renameFailed")
            /\ UNCHANGED <<stored, userSchedules, activeSchedule>>
  /\ UNCHANGED <<draftVars, calls, created, isSaving, saves>>

\* ActiveScheduleContext.fetchUserSchedules has returned: the list of the
\* server, or the empty list when the request has failed
fetchUserSchedules(ok) ==
  /\ userSchedules' = IF ok THEN ServerSchedules ELSE <<>>
  /\ lastAdd' = NoAdd
  /\ UNCHANGED <<draftVars, activeSchedule, calls, created>>
  /\ UNCHANGED saveVars

\* mutant: the draft store mounts with its initial values, not with the
\* values of localStorage, and the effect then runs on the active schedule
ProviderMountFresh ==
  /\ HydrateEffect(0, activeSchedule, <<>>, "", "", 0, FALSE, 0)
  /\ calls' = EmptyBag
  /\ saves' = EmptyBag
  /\ isSaving' = FALSE
  /\ lastAdd' = SaveCall("mounted")
  /\ UNCHANGED <<activeSchedule, userSchedules, created, stored>>

\* The page is loaded again: both providers mount with the state kept in
\* localStorage, the calls under way are gone, and the effect runs on the
\* active schedule as on every mount
ProviderMount ==
  /\ HydrateEffect(0, activeSchedule, draftSchedule, draftScheduleName, draftSemester,
                   draftYear, isEditingExisting, existingScheduleId)
  /\ calls' = EmptyBag
  /\ saves' = EmptyBag
  /\ isSaving' = FALSE
  /\ lastAdd' = SaveCall("mounted")
  /\ UNCHANGED <<activeSchedule, userSchedules, created, stored>>

\* The user has two saved schedules and none is active
InitObserve ==
  /\ draftSchedule = <<>>
  /\ draftScheduleName = ""
  /\ draftSemester = ""
  /\ draftYear = 0
  /\ isEditingExisting = FALSE
  /\ existingScheduleId = 0
  /\ activeSchedule = NoSchedule
  /\ userSchedules = <<UntitledSchedule(2), PersistedSchedule>>
  /\ calls = EmptyBag
  /\ created = 2
  /\ lastAdd = NoAdd
  /\ isSaving = FALSE
  /\ saves = EmptyBag
  /\ stored = StoredFor(userSchedules)

NextObserve ==
  \/ \E u \in Offered : AddClassToDraft(u)
  \/ \E index \in 1..MaxDraft : removeClassFromDraft(index)
  \/ clearDraft
  \/ \E k \in 1..Len(userSchedules) : loadExistingScheduleIntoDraft(userSchedules[k])
  \/ \E k \in 1..Len(userSchedules) : loadSchedule(k)
  \/ \E k \in 1..Len(userSchedules) : handleRenameSchedule(k, RenamedTo)
  \/ \E ok \in BOOLEAN : fetchUserSchedules(ok)
  \/ ProviderMount

SpecObserve == InitObserve /\ [][NextObserve]_vars

\* ------------------------------------------------------------------------
\* removeClassFromDraft on a list that is behind the state
\* ------------------------------------------------------------------------
\* An addClassToDraft call resumes after its wait and hands its updater to
\* setDraftSchedule outside of any event handler, so the update is batched
\* and rendered later; before it is rendered the remove button of a section
\* of the list still displayed is clicked.  removeClassFromDraft hands over
\* prev.filter((_, i) => i !== index) and both updaters are run in the
\* order they were handed over, the filter on the result of the first.  The
\* toast of the remove names draftSchedule[index] of the list displayed.
removeClassFromDraftUnrendered(call, index) ==
  /\ call.pc = "wait"
  /\ index \in 1..Len(draftSchedule)
  /\ Len(ApplyOutcome(Classify(call.classItem, call.draftSchedule).outcome,
                      call.classItem, draftSchedule)) <= MaxDraft
  /\ draftSchedule' =
       FilterIndex(ApplyOutcome(Classify(call.classItem, call.draftSchedule).outcome,
                                call.classItem, draftSchedule), index, 1)
  /\ lastAdd' = [NoAdd EXCEPT !.uuid = draftSchedule[index].uuid, !.outcome = "removed"]
  /\ calls' = calls (-) SetToBag({call})
  /\ UNCHANGED <<draftScheduleName, draftSemester, draftYear, isEditingExisting,
                 existingScheduleId, activeSchedule, userSchedules, created>>
  /\ UNCHANGED saveVars

NextRender ==
  \/ \E u \in Offered : AddClassToDraft(u)
  \/ \E u \in Offered : AddClassToDraftCreate(u)
  \/ \E call \in BagToSet(calls) : CreateScheduleOk(call)
  \/ \E call \in BagToSet(calls) : AddClassResume(call)
  \/ \E index \in 1..MaxDraft : removeClassFromDraft(index)
  \/ \E call \in BagToSet(calls) : \E index \in 1..MaxDraft :
       removeClassFromDraftUnrendered(call, index)
  \/ \E k \in 1..Len(userSchedules) : loadExistingScheduleIntoDraft(userSchedules[k])

SpecRender == Init /\ [][NextRender]_vars

\* ------------------------------------------------------------------------
\* AuthContext: sign-out and sign-in of another user on the same page (the
\* providers are in the root layout and stay mounted through router.push)
\* ------------------------------------------------------------------------
\* Builder.handleLogout -> signOut, with no call under way: the keys of
\* localStorage are removed and user becomes null, on which the effect of
\* ActiveScheduleProvider empties the list and the active schedule; the
\* effect of the draft store returns at !activeSchedule and no setter of
\* the draft is called; the Builder page redirects to "/".
signOut ==
  /\ lastAdd.outcome # "signedOut"
  /\ calls = EmptyBag /\ saves = EmptyBag
  /\ userSchedules' = <<>>
  /\ activeSchedule' = NoSchedule
  /\ HydrateEffect(activeSchedule.id, NoSchedule, draftSchedule, draftScheduleName,
                   draftSemester, draftYear, isEditingExisting, existingScheduleId)
  /\ lastAdd' = SaveCall("signedOut")
  /\ UNCHANGED <<calls, created>>
  /\ UNCHANGED saveVars

\* Another user, who has no saved schedule, signs in on the landing page:
\* SIGNED_IN removes the keys of localStorage again, setUser(user), and the
\* effect of ActiveScheduleProvider fetches the list of that user.  stored
\* is from here on the rows of that user.
signIn ==
  /\ lastAdd.outcome = "signedOut"
  /\ userSchedules' = <<>>
  /\ stored' = StoredFor(<<>>)
  /\ lastAdd' = SaveCall("signedIn")
  /\ UNCHANGED <<draftVars, activeSchedule, calls, created, isSaving, saves>>

\* While signed out only the landing page is shown: the Builder page has
\* redirected to "/"
SignedIn == lastAdd.outcome # "signedOut"

NextAuth ==
  \/ SignedIn /\ \E u \in Offered : AddClassToDraft(u)
  \/ SignedIn /\ \E u \in Offered : AddClassToDraftCreate(u)
  \/ SignedIn /\ \E call \in BagToSet(calls) : CreateScheduleFailed(call)
  \/ SignedIn /\ \E call \in BagToSet(calls) : CreateScheduleOk(call)
  \/ SignedIn /\ \E call \in BagToSet(calls) : AddClassResume(call)
  \/ SignedIn /\ \E index \in 1..MaxDraft : removeClassFromDraft(index)
  \/ SignedIn /\ \E k \in 1..MaxSchedules : loadSchedule(k)
  \/ signOut
  \/ signIn

SpecAuth == Init /\ [][NextAuth]_vars

\* ------------------------------------------------------------------------
\* Properties
\* ------------------------------------------------------------------------
\* the section with uuid u is in the list
InDraft(u, draft) == \E i \in 1..Len(draft) : draft[i].uuid = u

\* number of sections of the list with the (dept, code, component) of classItem
CountSlot(draft, classItem) ==
  Cardinality({i \in 1..Len(draft) : SameComponent(draft[i], classItem)})

\* this step is a call addClassToDraft(ClassSection(u)) made while a schedule
\* is active
SyncAdd(u) == lastAdd'.uuid = u /\ AddClassToDraft(u)

\* this step is the end of the suspended call
AsyncAdd(call) == lastAdd'.uuid = call.classItem.uuid /\ AddClassResume(call)

\* offerings u and v are of different slots, share a day and overlap in time
Clash(u, v) == ~SameSlot(u, v) /\ SharesDay(u, v) /\ Overlaps(u, v)

\* C1: in every reachable state the draft holds at most one section for each
\* (department, code, component).
OneSectionPerSlot ==
  \A i, j \in 1..Len(draftSchedule) :
    i # j => ~SameComponent(draftSchedule[i], draftSchedule[j])

\* C2: in every reachable state no two sections of the draft share a day and
\* have overlapping time intervals; stated for two sections of different
\* slots, which no Replace concerns.
NoOverlappingSections ==
  \A i, j \in 1..Len(draftSchedule) :
    ~Clash(draftSchedule[i].uuid, draftSchedule[j].uuid)

\* C3: adds are serialized: the draft a call has classified against is the
\* draft its write is applied to, i.e. the draft holds the result of every
\* call that committed before it and no mutator ran in between.
AddsAreSerialized ==
  [][\A call \in BagToSet(calls) :
       AsyncAdd(call) => call.draftSchedule = draftSchedule]_vars

DuplicateAlwaysWins ==
  [][\A u \in Uuids :
       (InDraft(u, draftSchedule) /\ SyncAdd(u)) =>
         (lastAdd'.outcome = "duplicate" /\ lastAdd'.other = u)]_vars

\* u2 was reported a Duplicate in a draft where it overlaps u4 on Thursday
DuplicateWonOverConflict ==
  /\ lastAdd.uuid = "u2"
  /\ lastAdd.outcome = "duplicate"
  /\ draftSchedule = <<ClassSection("u4"), ClassSection("u2")>>

\* the draft holds a section of the candidate's slot and a section of
\* another slot that the candidate, not yet in the draft, clashes with
GenuineConflict(classItem, draft) ==
  /\ ~InDraft(classItem.uuid, draft)
  /\ \E i \in 1..Len(draft) : SameComponent(draft[i], classItem)
  /\ \E i \in 1..Len(draft) : Clash(classItem.uuid, draft[i].uuid)

\* C6: a swap is blocked by a genuine conflict: with A and Z in the draft and
\* a candidate of A's slot that clashes with Z, the outcome is TimeConflict
\* reporting Z, and the draft after the call is the draft before it.
SwapBlockedByConflict ==
  [][/\ \A u \in Offered :
          (GenuineConflict(ClassSection(u), draftSchedule) /\ SyncAdd(u)) =>
            /\ lastAdd'.outcome = "conflict"
            /\ Clash(u, lastAdd'.other)
            /\ draftSchedule' = draftSchedule
     /\ \A call \in BagToSet(calls) :
          (GenuineConflict(call.classItem, call.draftSchedule) /\ AsyncAdd(call)) =>
            /\ lastAdd'.outcome = "conflict"
            /\ Clash(call.classItem.uuid, lastAdd'.other)
            /\ draftSchedule' = call.draftSchedule]_vars

\* C7: self-swap exclusion: a candidate not yet in the draft, of the slot of
\* a section A of the draft and clashing with no section of another slot,
\* is a Replace of A, also when it meets on A's days at A's times; the
\* sections of that slot become the candidate and the rest stays.
SelfSwapIsReplace ==
  [][\A u \in Uuids :
       (/\ ~InDraft(u, draftSchedule)
        /\ CountSlot(draftSchedule, ClassSection(u)) >= 1
        /\ \A i \in 1..Len(draftSchedule) : ~Clash(u, draftSchedule[i].uuid)
        /\ SyncAdd(u)) =>
         /\ lastAdd'.outcome = "replaced"
         /\ SameComponent(ClassSection(lastAdd'.other), ClassSection(u))
         /\ Len(draftSchedule') = Len(draftSchedule)
         /\ \A i \in 1..Len(draftSchedule) :
              draftSchedule'[i] = IF SameComponent(draftSchedule[i], ClassSection(u))
                                   THEN ClassSection(u) ELSE draftSchedule[i]]_vars

\* u3, which meets exactly when u1 does, has replaced u1
SelfSwapDone ==
  /\ lastAdd.uuid = "u3"
  /\ lastAdd.outcome = "replaced"
  /\ lastAdd.other = "u1"
  /\ draftSchedule = <<ClassSection("u3")>>

\* C8: Replace preserves cardinality: when the draft holds exactly one
\* section of a slot, then after an add of another section of that slot,
\* whatever its outcome, it still holds exactly one.
ReplaceKeepsOneOfSlot ==
  [][/\ \A u \in Offered :
          (/\ CountSlot(draftSchedule, ClassSection(u)) = 1
           /\ ~InDraft(u, draftSchedule)
           /\ SyncAdd(u)) =>
            CountSlot(draftSchedule', ClassSection(u)) = 1
     /\ \A call \in BagToSet(calls) :
          (/\ CountSlot(call.draftSchedule, call.classItem) = 1
           /\ ~InDraft(call.classItem.uuid, call.draftSchedule)
           /\ AsyncAdd(call)) =>
            CountSlot(draftSchedule', call.classItem) = 1]_vars

\* C9: the overlap test is half-open: a candidate not yet in the draft is a
\* TimeConflict exactly when some section of another slot shares a day with
\* it and startA < endB and startB < endA; the section reported is one of
\* those.  Touching end points do not conflict.
HalfOpenOverlap ==
  [][\A u \in Uuids :
       (~InDraft(u, draftSchedule) /\ SyncAdd(u)) =>
         /\ lastAdd'.outcome = "conflict"
              <=> \E i \in 1..Len(draftSchedule) : Clash(u, draftSchedule[i].uuid)
         /\ lastAdd'.outcome = "conflict" => Clash(u, lastAdd'.other)]_vars

\* u5 (Monday 9:50-10:40) was added as New next to u1 (Monday 9:00-9:50)
TouchingAdded ==
  /\ lastAdd.uuid = "u5"
  /\ lastAdd.outcome = "added"
  /\ draftSchedule = <<ClassSection("u1"), ClassSection("u5")>>

\* C10: day-disjoint never conflicts: a candidate not yet in the draft that
\* has no day in common with any section of the draft is never a
\* TimeConflict, whatever the times: it is a Replace when the draft holds a
\* section of its slot and New otherwise.
DayDisjointNeverConflicts ==
  [][\A u \in Uuids :
       (/\ ~InDraft(u, draftSchedule)
        /\ \A i \in 1..Len(draftSchedule) : ~SharesDay(u, draftSchedule[i].uuid)
        /\ SyncAdd(u)) =>
         lastAdd'.outcome =
           (IF CountSlot(draftSchedule, ClassSection(u)) >= 1 THEN "replaced"
            ELSE "added")]_vars

\* u4 (Tuesday, Thursday 9:00-9:50) was added as New next to u1 (Monday
\* 9:00-9:50)
DayDisjointAdded ==
  /\ lastAdd.uuid = "u4"
  /\ lastAdd.outcome = "added"
  /\ draftSchedule = <<ClassSection("u1"), ClassSection("u4")>>

\* the call that has just returned was turned down
Rejected(add) == add.outcome \in {"duplicate", "conflict"}

\* C11: a call of addClassToDraft that ends in Duplicate or TimeConflict
\* changes nothing: the draft (sections, name, term, year, editing flag,
\* linked id), the active schedule, the saved-schedule list and the rows of
\* the server are, when it returns, what they were when it was made.
RejectionChangesNothing ==
  [][/\ \A u \in Offered :
          (SyncAdd(u) /\ Rejected(lastAdd')) =>
            UNCHANGED <<draftVars, activeSchedule, userSchedules, created>>
     /\ \A call \in BagToSet(calls) :
          (AsyncAdd(call) /\ Rejected(lastAdd')) =>
            /\ draftSchedule' = call.draftSchedule
            /\ UNCHANGED <<draftVars, activeSchedule, userSchedules, created>>]_vars

\* C12: removeClassFromDraft with a position at which the draft has no
\* section is a silent no-op: the draft and its metadata are unchanged and
\* nothing is thrown to the caller.
RemoveOutOfRangeIsSilent ==
  [][\A index \in 0..(MaxDraft + 1) :
       (index \notin 1..Len(draftSchedule) /\ removeClassFromDraft(index)) =>
         /\ UNCHANGED draftVars
         /\ lastAdd' # TypeErrorThrown]_vars

\* C13: clearDraft is atomic: after it the draft has no section and its
\* name, term and year are empty and the editing flag is off, all of them.
ClearResetsEveryField ==
  [][clearDraft =>
       /\ draftSchedule' = <<>>
       /\ draftScheduleName' = ""
       /\ draftSemester' = ""
       /\ draftYear' = 0
       /\ isEditingExisting' = FALSE]_vars

\* after this step the draft is the saved schedule, all six fields of it
Loaded(saved) ==
  /\ draftSchedule' = saved.classes
  /\ draftScheduleName' = saved.name
  /\ draftSemester' = saved.semester
  /\ draftYear' = saved.year
  /\ isEditingExisting' = TRUE
  /\ existingScheduleId' = saved.id

JustLoaded(id) ==
  /\ lastAdd.outcome \in {"loaded", "skipped"}
  /\ existingScheduleId = id

\* C15 as stated: loading is idempotent: a load of the saved schedule with
\* the id of the schedule that the call before has loaded, by
\* loadExistingScheduleIntoDraft or by the effect when that schedule becomes
\* the active one, leaves the draft state as the first load has left it.
LoadTwiceIsNoOp ==
  [][/\ \A k \in 1..Len(userSchedules) :
          (/\ JustLoaded(userSchedules[k].id)
           /\ loadExistingScheduleIntoDraft(userSchedules[k])) => UNCHANGED draftVars
     /\ \A k \in 1..MaxSchedules :
          (/\ loadSchedule(k)
           /\ JustLoaded(userSchedules[k].id)) => UNCHANGED draftVars]_vars

\* C15, amended: a load of the saved schedule with the id of the schedule
\* that the call before has loaded leaves the draft state as the first load
\* has left it when the first load has written the draft, and also when the
\* second load is the one of the effect.  (A loadExistingScheduleIntoDraft
\* after a load that the effect has skipped does write the draft.)
LoadTwiceIsNoOpOnceWritten ==
  [][/\ \A k \in 1..Len(userSchedules) :
          (/\ JustLoaded(userSchedules[k].id)
           /\ lastAdd.outcome = "loaded"
           /\ loadExistingScheduleIntoDraft(userSchedules[k])) => UNCHANGED draftVars
     /\ \A k \in 1..MaxSchedules :
          (/\ loadSchedule(k)
           /\ JustLoaded(userSchedules[k].id)) => UNCHANGED draftVars]_vars

\* saved schedule 1 has been loaded twice in a row into a draft that held
\* the schedule created by an add
LoadedTwice ==
  /\ lastAdd.outcome = "loaded"
  /\ lastAdd.prev = "loaded"
  /\ existingScheduleId = PersistedSchedule.id
  /\ draftSchedule = PersistedSchedule.classes
  /\ draftScheduleName = PersistedSchedule.name
  /\ Len(userSchedules) = 2

\* C16: the draft's state machine: no step of an addClassToDraft call and
\* no removeClassFromDraft changes the editing flag or the linked id; every
\* load leaves the editing flag on; clearDraft leaves the draft without
\* sections.
DraftStateMachine ==
  [][/\ \A u \in Offered :
          AddClassToDraft(u) => UNCHANGED <<isEditingExisting, existingScheduleId>>
     /\ \A call \in BagToSet(calls) :
          (CreateScheduleFailed(call) \/ CreateScheduleOk(call) \/ AddClassResume(call))
            => UNCHANGED <<isEditingExisting, existingScheduleId>>
     /\ \A index \in 0..(MaxDraft + 1) :
          removeClassFromDraft(index) => UNCHANGED <<isEditingExisting, existingScheduleId>>
     /\ \A k \in 1..Len(userSchedules) :
          loadExistingScheduleIntoDraft(userSchedules[k]) => isEditingExisting'
     /\ \A k \in 1..MaxSchedules : loadSchedule(k) => isEditingExisting'
     /\ clearDraft => draftSchedule' = <<>>]_vars

\* the server applies a write of the request in this step
ServerWrite(req) == SaveClearClasses(req) \/ SaveInsertClasses(req)

\* C17: the writes of save requests reach the tables in the order in which
\* the drafts they carry were accepted locally: while a request is being
\* written, no request that carries another draft is in the middle of its
\* write, and no request made on an earlier Builder page with another draft
\* is still to be written; so when the request of the page shown has been
\* answered ok, the schedule's rows are the sections of its draft.
SavesAppliedInOrder ==
  [][\A req \in BagToSet(saves) :
       /\ ServerWrite(req) =>
            \A other \in BagToSet(saves) :
              other.classes # req.classes =>
                /\ other.pc # "cleared"
                /\ (req.mounted /\ ~other.mounted) => other.pc # "sent"
       /\ (SaveOk(req) /\ req.mounted) =>
            stored[req.target].uuids = UuidSet(req.classes)]_vars

\* C18: round trip: when a save made right after a load of a saved
\* schedule is answered ok, the rows of schedule_classes under the id of
\* that schedule are the uuids of the sections of the saved schedule, which
\* the request carries: none dropped, none more.
LoadSaveRoundTrip ==
  [][\A req \in BagToSet(saves) :
       (/\ req.afterLoad
        /\ SaveInsertClasses(req)
        /\ \E next \in BagToSet(saves') : next.pc = "ok" /\ next.classes = req.classes) =>
         /\ req.target = req.scheduleId
         /\ stored'[req.target].uuids = UuidSet(req.classes)]_vars

\* C19: a persistence call that fails leaves the draft alone.  No step of
\* an addClassToDraft call whose /api/createSchedule request fails, and no
\* step of a handleSaveSchedule call up to and including its catch, changes
\* the draft (sections, name, term, year, editing flag, linked id), the
\* active schedule or the saved-schedule list, so the draft is not linked to
\* and does not match a schedule by a persist that failed; the call ends
\* with the error toast.
FailedPersistLeavesDraft ==
  [][/\ \A u \in OfferedPersist :
          AddClassToDraftCreate(u) => UNCHANGED <<draftVars, activeSchedule, userSchedules>>
     /\ \A call \in BagToSet(calls) :
          CreateScheduleFailed(call) =>
            /\ UNCHANGED <<draftVars, activeSchedule, userSchedules>>
            /\ lastAdd'.outcome = "createFailed"
     /\ handleSaveSchedule => UNCHANGED <<draftVars, activeSchedule, userSchedules>>
     /\ \A req \in BagToSet(saves) :
          /\ (ServerWrite(req) \/ SaveRejected(req)) =>
               UNCHANGED <<draftVars, activeSchedule, userSchedules>>
          /\ SaveFailed(req) =>
               /\ UNCHANGED <<draftVars, activeSchedule, userSchedules>>
               /\ schedulesMatch' = schedulesMatch
               /\ lastAdd'.outcome = "saveFailed"]_vars

\* the save of the draft [u2] of the schedule that the add has created has
\* failed: the draft still holds u2 and does not match the active schedule,
\* and the page is ready for another save
SaveHasFailed ==
  /\ lastAdd.outcome = "saveFailed"
  /\ draftSchedule = <<ClassSection("u2")>>
  /\ existingScheduleId = 2
  /\ activeSchedule.id = 2
  /\ ~schedulesMatch
  /\ ~isSaving

\* a time as the code can read it: digits for the hours, optionally a colon
\* and digits for the minutes, optionally a blank and AM or PM
IsClockTime(t) ==
  LET words == Split(t, " ")
      parts == Split(words[1], ":")
      IsNumeral(p) == p # <<>> /\ \A i \in 1..Len(p) : IsDigit(p[i])
  IN /\ Len(words) \in {1, 2}
     /\ Len(words) = 2 => ToUpperCase(words[2]) \in {<<"A", "M">>, <<"P", "M">>}
     /\ Len(parts) \in {1, 2}
     /\ \A k \in 1..Len(parts) : IsNumeral(parts[k])

\* C20: malformed time data is absorbed.  Once addClassToDraft has run on a
\* draft, timeToDecimal has returned 0 for every start or end time string of
\* the draft that is empty or is not a clock time, and the call has ended
\* with one of the four classifications (it never ends on a thrown error).
MalformedTimeAbsorbed ==
  lastAdd.uuid # "none" =>
    /\ \A i \in 1..Len(draftSchedule) :
         \A t \in {draftSchedule[i].starttime, draftSchedule[i].endtime} :
           (t = <<>> \/ ~IsClockTime(t)) => timeToDecimal(t) = 0
    /\ lastAdd.outcome \in {"duplicate", "conflict", "replaced", "added"}

\* the minute of the day that a well-formed time string denotes
WallClock(t) == CHOOSE m \in Minutes : t \in ClockTable[m]

\* C21: timeToDecimal converts well-formed times to the 24-hour scale.  For
\* the section of the draft whose start or end time is any well-formed
\* string (24-hour, or 12-hour with AM / PM) of any minute of the day, the
\* value timeToDecimal returns is that minute of the day (12 AM is hour 0,
\* 12 PM is hour 12, other PM hours have 12 added), and the add of a section
\* that shares a day with it is a TimeConflict exactly when the wall-clock
\* intervals meet.
ClockTimesConverted ==
  lastAdd.uuid # "none" =>
    LET held == draftSchedule[1]
        start == WallClock(held.starttime)
        end == WallClock(held.endtime)
    IN /\ timeToDecimal(held.starttime) = start
       /\ timeToDecimal(held.endtime) = end
       /\ lastAdd.outcome # "duplicate" =>
            (lastAdd.outcome = "conflict" <=>
               /\ Catalog[lastAdd.uuid].start < end
               /\ start < Catalog[lastAdd.uuid].end)

\* a section starting at 12:30 PM is held and the section of 9:30-10:20 was
\* added after it without a conflict
NoonConverted ==
  /\ lastAdd.uuid = "u2"
  /\ lastAdd.outcome = "added"
  /\ Len(draftSchedule) = 2
  /\ draftSchedule[1].starttime = Clock12(12 * 60 + 30)

\* C22: the draft store only reads the active schedule.  No step of a
\* mutator of the draft (addClassToDraft with the request it makes and its
\* resumption, removeClassFromDraft, clearDraft,
\* loadExistingScheduleIntoDraft) changes the active schedule or the
\* saved-schedule list, or creates a schedule row on the server.
DraftStoreOnlyReadsActive ==
  [][(\/ \E u \in Offered : AddClassToDraft(u) \/ AddClassToDraftCreate(u)
      \/ \E call \in BagToSet(calls) :
           CreateScheduleFailed(call) \/ CreateScheduleOk(call) \/ AddClassResume(call)
      \/ \E index \in 0..(MaxDraft + 1) : removeClassFromDraft(index)
      \/ clearDraft
      \/ \E k \in 1..Len(userSchedules) :
           loadExistingScheduleIntoDraft(userSchedules[k]))
       => UNCHANGED <<activeSchedule, userSchedules, created, stored>>]_vars

\* C23: when the saved schedule the draft is linked to is deleted, the draft
\* is cleared: after the deletion the draft has no section, the editing flag
\* is off and the linked id (the scheduleId a later save would post) is not
\* the id of the deleted schedule.
DeleteClearsLinkedDraft ==
  [][\A k \in 1..MaxSchedules :
       (/\ deleteSchedule(k)
        /\ isEditingExisting
        /\ existingScheduleId = userSchedules[k].id)
         => /\ draftSchedule' = <<>>
            /\ ~isEditingExisting'
            /\ existingScheduleId' # userSchedules[k].id]_vars

\* C24: a call of addClassToDraft that ends in New appends.  When the call
\* returns with the toast "Added", the draft is the sequence the call was
\* made on with the candidate appended at its end (every section of it kept,
\* in its order), and name, term and year are unchanged.
NewAppendsCandidate ==
  [][/\ \A u \in Offered :
          (SyncAdd(u) /\ lastAdd'.outcome = "added") =>
            /\ draftSchedule' = Append(draftSchedule, ClassSection(u))
            /\ UNCHANGED <<draftScheduleName, draftSemester, draftYear>>
     /\ \A call \in BagToSet(calls) :
          (AsyncAdd(call) /\ lastAdd'.outcome = "added") =>
            /\ draftSchedule' = Append(call.draftSchedule, call.classItem)
            /\ UNCHANGED <<draftScheduleName, draftSemester, draftYear>>]_vars

\* C25: one day-letter scheme everywhere.  For every pair of day-code
\* strings, the conflict check of addClassToDraft (parseDays of
\* lib/timeUtils) and the conflict check of /api/addClass (parseDays of the
\* route) agree on whether two sections share a day: for two sections of
\* different slots whose times overlap, the add in the draft ends in
\* TimeConflict exactly when the route finds a common day, and the route
\* answers with a time conflict exactly when lib/timeUtils finds a common
\* day.
DayParsersAgree ==
  [][\A d \in DayStrings :
       /\ (AddDayRow(d) /\ Len(draftSchedule) = 1) =>
            (lastAdd'.outcome = "conflict" <=>
               dayOverlap(addClassParseDays(d),
                          addClassParseDays(draftSchedule[1].days)))
       /\ (/\ addClassPOST(activeSchedule.id, DayRow("b", d).uuid, FALSE)
           /\ stored[activeSchedule.id].uuids = UuidSet(activeSchedule.classes)) =>
            (lastAdd'.outcome = "timeConflict" <=>
               hasCommonDay(parseDays(d), parseDays(activeSchedule.classes[1].days)))]_vars

\* the active schedule is observed in this step: it is renamed, the list is
\* refreshed, the page is loaded again, or a schedule of the list is clicked
Observed ==
  \/ \E k \in 1..Len(userSchedules) : handleRenameSchedule(k, RenamedTo) \/ loadSchedule(k)
  \/ \E ok \in BOOLEAN : fetchUserSchedules(ok)
  \/ ProviderMount

\* C26: while the draft is editing the saved schedule X (editing flag on,
\* linked id X), a step that shows the active schedule with id X again
\* (rename, refresh of the list, reload of the page, click on it) leaves the
\* sections and the metadata of the draft as they are; such a step changes
\* the draft only when the id of the active schedule is not the linked id or
\* the draft is not in editing mode, and then to the active schedule.
ObservingLinkedKeepsDraft ==
  [][Observed =>
       IF isEditingExisting /\ existingScheduleId = activeSchedule'.id
         THEN UNCHANGED draftVars
         ELSE \/ UNCHANGED draftVars
              \/ /\ draftSchedule' = activeSchedule'.classes
                 /\ draftScheduleName' = activeSchedule'.name
                 /\ existingScheduleId' = activeSchedule'.id
                 /\ isEditingExisting']_vars

\* the page has been loaded again while the draft, edited since it was
\* loaded, is linked to the active schedule, which has been renamed
ReloadedWhileEditing ==
  /\ activeSchedule.id = 1
  /\ activeSchedule.name = RenamedTo
  /\ isEditingExisting /\ existingScheduleId = 1
  /\ draftSchedule = <<ClassSection("u4")>>
  /\ draftScheduleName = PersistedSchedule.name
  /\ lastAdd = SaveCall("mounted")

\* C27: nothing of a user is left for the next one.  When a user has signed
\* out and another user has signed in on the same page, the draft store of
\* the second user holds no section and no name, term, year or linked id of
\* the first, and there is no active schedule and no saved schedule of the
\* first user.
SignInStartsClean ==
  lastAdd.outcome = "signedIn" =>
    /\ draftSchedule = <<>>
    /\ draftScheduleName = "" /\ draftSemester = "" /\ draftYear = 0
    /\ ~isEditingExisting /\ existingScheduleId = 0
    /\ activeSchedule = NoSchedule
    /\ userSchedules = <<>>

\* C28: a success toast means the section is held.  When the addClassToDraft
\* call that has just returned showed Added or Replaced for a candidate, the
\* draft holds a section with the candidate's uuid, also when the call
\* created a schedule first and the draft changed between its checks and
\* its state update.
SuccessMeansHeld ==
  lastAdd.outcome \in {"added", "replaced"} => InDraft(lastAdd.uuid, draftSchedule)

\* C30: one Untitled schedule per start of a draft.  While an addClassToDraft
\* call that has created a schedule waits for it to become active, no other
\* call made before that creation creates a second schedule: the calls
\* made while no schedule was active share the one that was created.
OneUntitledPerDraft ==
  [][\A call \in BagToSet(calls) :
       CreateScheduleOk(call) => \A other \in BagToSet(calls) : other.pc # "wait"]_vars

\* C29: a remove takes the displayed section and no other.  A click on the
\* remove button at a position of the displayed list takes out of the
\* draft at most the section displayed at that position, also when the
\* update of an add or a replace is applied between the rendering of that
\* list and the update of the remove.
RemoveTakesDisplayed ==
  [][/\ \A index \in 1..MaxDraft :
         removeClassFromDraft(index) /\ index <= Len(draftSchedule) =>
           UuidSet(draftSchedule) \ UuidSet(draftSchedule') \subseteq {draftSchedule[index].uuid}
     /\ \A call \in BagToSet(calls) : \A index \in 1..MaxDraft :
         removeClassFromDraftUnrendered(call, index) =>
           LET outcome == Classify(call.classItem, call.draftSchedule).outcome
               applied == ApplyOutcome(outcome, call.classItem, draftSchedule)
           IN UuidSet(applied) \ UuidSet(draftSchedule')
                \subseteq {draftSchedule[index].uuid}]_vars

====
